---- MODULE Spec2Model ----
(***************************************************************************)
(* landevlist: lists the devices of the local network that answer a ping.  *)
(* The model follows src/landevlist.py: main() checks its argument and the *)
(* required programs, get_all_reachable_lan_devs() runs `ip -4 neigh show`,*)
(* parses the lines into the ordered mapping lan_dev (MAC -> IPv4), probes *)
(* every IPv4 through a multiprocessing.Pool of MULTIPROC_PCOUNT workers   *)
(* and pops the unreachable MACs, and main() prints the table.             *)
(*                                                                         *)
(* Text is modelled character by character: a string is a sequence of      *)
(* one-character strings, so that re.search, str.split and the dictionary  *)
(* keys behave as they do in the program.                                  *)
(***************************************************************************)
EXTENDS Integers, Sequences, FiniteSets, TLC

\* ------------------------------------------------------------ constants

\* landevlist.py:36
MULTIPROC_PCOUNT == 5

\* Longest neighbor table drawn line by line from LineChoices.
MaxLines == 3

\* Longest neighbor table of distinct resolved devices (more than the pool).
MaxDevs == 6

\* Most candidates in the timed runs of the pool (chunks of two from 21 on).
MaxCandidates == 23

\* Clock ticks in one probe timeout (ping -W 1).
TicksPerUnit == 2

\* Clock ticks of the shortest ping.
MinProbeTicks == 1

\* ------------------------------------------------------------ text

HexDigits == {"0", "1", "2", "3", "4", "5", "6", "7", "8", "9",
              "a", "b", "c", "d", "e", "f", "A", "B", "C", "D", "E", "F"}

Separators == {":", "-"}

\* What str.split() with no argument splits on (no line holds a "\n").
Whitespace == {" ", "\t"}

\* re.match of ([0-9A-Fa-f]{2}[:-]){5}([0-9A-Fa-f]{2}) at position i.
MacMatchAt(line, i) ==
    /\ i >= 1
    /\ i + 16 <= Len(line)
    /\ \A k \in 0..16 :
         IF k % 3 = 2 THEN line[i + k] \in Separators
                      ELSE line[i + k] \in HexDigits

\* mac_pattern.search(line): the start of the leftmost match, 0 for None.
MacSearch(line) ==
    IF \E i \in 1..Len(line) : MacMatchAt(line, i)
    THEN CHOOSE i \in 1..Len(line) :
           /\ MacMatchAt(line, i)
           /\ \A j \in 1..(i - 1) : ~MacMatchAt(line, j)
    ELSE 0

\* mac_match.group(0): the matched text, as written in the line.
MacGroup0(line) == SubSeq(line, MacSearch(line), MacSearch(line) + 16)

\* line.split()[0]: the first whitespace-delimited token.
RECURSIVE TakeToken(_)
TakeToken(s) ==
    IF s = <<>> \/ Head(s) \in Whitespace THEN <<>>
    ELSE <<Head(s)>> \o TakeToken(Tail(s))

RECURSIVE FirstToken(_)
FirstToken(s) ==
    IF s = <<>> THEN <<>>
    ELSE IF Head(s) \in Whitespace THEN FirstToken(Tail(s))
    ELSE TakeToken(s)

\* proc.stdout.split("\n"): the pieces between line feeds, empty ones kept.
RECURSIVE SplitFrom(_, _)
SplitFrom(text, start) ==
    IF \E j \in start..Len(text) : text[j] = "\n"
    THEN LET j == CHOOSE j \in start..Len(text) :
                    /\ text[j] = "\n"
                    /\ \A k \in start..(j - 1) : text[k] # "\n"
         IN <<SubSeq(text, start, j - 1)>> \o SplitFrom(text, j + 1)
    ELSE <<SubSeq(text, start, Len(text))>>

SplitLines(text) == SplitFrom(text, 1)

\* list(filter(len, ...)): the non-empty pieces, in order.
RECURSIVE FilterLen(_)
FilterLen(pieces) ==
    IF pieces = <<>> THEN <<>>
    ELSE IF Len(Head(pieces)) = 0 THEN FilterLen(Tail(pieces))
    ELSE <<Head(pieces)>> \o FilterLen(Tail(pieces))

ProcResultLines(out) == FilterLen(SplitLines(out))

\* ------------------------------------------------------------ the dict

\* A dict is the sequence of its <<key, value>> items in insertion order.
DictKeys(d) == [i \in 1..Len(d) |-> d[i][1]]

\* Mutant of DictValues: the values in another order than the keys.
DictValuesReversed(d) == [i \in 1..Len(d) |-> d[Len(d) + 1 - i][2]]

DictValues(d) == [i \in 1..Len(d) |-> d[i][2]]
DictHas(d, k) == \E i \in 1..Len(d) : d[i][1] = k
DictGet(d, k) == d[CHOOSE i \in 1..Len(d) : d[i][1] = k][2]

\* Mutant of DictSet: the first value of a key is kept (setdefault).
DictSetDefault(d, k, v) ==
    IF DictHas(d, k) THEN d ELSE Append(d, <<k, v>>)

\* Mutant of DictSet: a list of pairs, every assignment adds an item.
DictSetAppend(d, k, v) == Append(d, <<k, v>>)

\* d[k] = v: an existing key keeps its place, a new key goes last.
DictSet(d, k, v) ==
    IF DictHas(d, k)
    THEN [i \in 1..Len(d) |-> IF d[i][1] = k THEN <<k, v>> ELSE d[i]]
    ELSE Append(d, <<k, v>>)

\* d.pop(k) for a key that is present.
DictPop(d, k) == SelectSeq(d, LAMBDA item : item[1] # k)

\* ------------------------------------------------------------ the parser

\* Mutant of ParseLine: without the test of line 85, a line with no match
\* is entered under the empty MAC.
ParseLineUnchecked(d, line) ==
    LET start == MacSearch(line) IN
    IF start # 0
    THEN DictSet(d, SubSeq(line, start, start + 16), FirstToken(line))
    ELSE DictSet(d, <<>>, FirstToken(line))

\* One pass of the for loop of lines 82-88.
ParseLine(d, line) ==
    LET start == MacSearch(line) IN
    IF start # 0
    THEN DictSet(d, SubSeq(line, start, start + 16), FirstToken(line))
    ELSE d

RECURSIVE ParseLines(_, _)
ParseLines(d, lines) ==
    IF lines = <<>> THEN d
    ELSE ParseLines(ParseLine(d, Head(lines)), Tail(lines))

\* The for loop of line 94: pop every MAC whose result is false. A pop of a
\* key that is not in the dict raises KeyError and ends the loop.
RECURSIVE PopLoop(_, _, _, _)
PopLoop(d, macs, res, i) ==
    IF i > Len(res) THEN [dev |-> d, keyerror |-> FALSE]
    ELSE IF res[i] THEN PopLoop(d, macs, res, i + 1)
    ELSE IF DictHas(d, macs[i]) THEN PopLoop(DictPop(d, macs[i]), macs, res, i + 1)
    ELSE [dev |-> d, keyerror |-> TRUE]

\* Mutant of PopUnreachable: the test of line 95 without its "not".
PopReachable(d, macs, res) ==
    PopLoop(d, macs, [i \in 1..Len(res) |-> ~res[i]], 1)

PopUnreachable(d, macs, res) == PopLoop(d, macs, res, 1)

\* ------------------------------------------------------------ the pool

\* Mutant of Processes: a pool one worker short.
ProcessesOneShort == MULTIPROC_PCOUNT - 1

\* Pool(processes = MULTIPROC_PCOUNT): the number of worker processes.
Processes == MULTIPROC_PCOUNT

\* pool.map's chunk size: divmod(len(iterable), 4 * processes), rounded up.
ChunkSize(n) ==
    IF n = 0 THEN 0
    ELSE IF n % (4 * Processes) = 0 THEN n \div (4 * Processes)
    ELSE (n \div (4 * Processes)) + 1

\* The number of tasks pool.map puts on the queue, one per chunk.
NumChunks(n) ==
    IF n = 0 THEN 0 ELSE (n + ChunkSize(n) - 1) \div ChunkSize(n)

\* The first and last index (from 1) of the iterable that chunk c holds.
ChunkFirst(n, c) == (c - 1) * ChunkSize(n) + 1
ChunkLast(n, c) ==
    IF c * ChunkSize(n) < n THEN c * ChunkSize(n) ELSE n

\* ------------------------------------------------------------ inputs

\* sys.argv: the program name, then the arguments.
HelpArgs == {"help", "-help", "--help", "/help"}
Argvs == { <<"landevlist">>, <<"landevlist", "-h">> }
           \cup { <<"landevlist", a>> : a \in HelpArgs }

\* What shutil.which finds.
Programs == {"ip", "ping"}

Ip(d) == <<"1", "0", ".", "0", ".", "0", ".", d>>

MkMac(h, s) == <<h, h, s, h, h, s, h, h, s, h, h, s, h, h, s, h, h>>

\* "<ip> lladdr <mac> STALE": a resolved entry.
Resolved(ip, mac) ==
    ip \o <<" ", "l", "l", "a", "d", "d", "r", " ">> \o mac
       \o <<" ", "S", "T", "A", "L", "E">>

\* "<ip> FAILED": an entry whose resolution failed, with no MAC.
Failed(ip) == ip \o <<" ", "F", "A", "I", "L", "E", "D">>

\* An entry with only five groups where the MAC would be.
Truncated(ip) ==
    ip \o <<" ", "l", "l", "a", "d", "d", "r", " ">>
       \o SubSeq(MkMac("a", ":"), 1, 14)

LineChoices ==
    { Resolved(Ip("1"), MkMac("a", ":")),
      Resolved(Ip("2"), MkMac("a", ":")),
      Resolved(Ip("2"), MkMac("A", ":")),
      Resolved(Ip("1"), MkMac("a", "-")),
      Resolved(Ip("1"), MkMac("b", ":")),
      Failed(Ip("2")),
      Truncated(Ip("1")),
      <<>> }

\* The text `ip` writes: every line followed by a line feed.
RECURSIVE JoinLines(_)
JoinLines(lines) ==
    IF lines = <<>> THEN <<>>
    ELSE Head(lines) \o <<"\n">> \o JoinLines(Tail(lines))

Digits == <<"1", "2", "3", "4", "5", "6", "7", "8", "9">>

\* n resolved devices with distinct MACs; with share, devices 2k-1 and 2k
\* have the same IPv4 address.
DeviceTable(n, share) ==
    [i \in 1..n |->
        Resolved(Ip(Digits[IF share THEN (i + 1) \div 2 ELSE i]),
                 MkMac(Digits[i], ":"))]

ShortTables == UNION { [1..n -> LineChoices] : n \in 0..MaxLines }

DeviceTables ==
    { DeviceTable(n, share) : n \in MULTIPROC_PCOUNT..MaxDevs, share \in BOOLEAN }

\* The outputs of a successful `ip -4 neigh show`.
Outputs == { JoinLines(t) : t \in ShortTables \cup DeviceTables }

\* What `ip` may have written when it ends with a failure status.
FailedOutputs == { JoinLines(t) : t \in { s \in ShortTables : Len(s) <= 1 } }

\* ------------------------------------------------------------ state

VARIABLES
    pc,              \* where main() is: "main", "pool_map", "returned", "exited"
    argv,            \* sys.argv
    installed,       \* the programs shutil.which finds
    ip_status,       \* "not_run", or how `ip -4 neigh show` ended
    proc_stdout,     \* proc.stdout of `ip`
    lan_dev,         \* the dict lan_dev
    pool_started,    \* multiprocessing.Pool was created
    all_macs,        \* tuple(lan_dev.keys())
    all_ips,         \* tuple(lan_dev.values())
    taken,           \* chunks the workers have taken from the task queue
    cur,             \* cur[c]: the index chunk c's worker is probing, 0 if none
    outcome,         \* outcome[i]: "none", "true", "false", "raised"
    probes,          \* probes[i]: the IPs is_ip_reachable was called with for index i
    raised,          \* a task raised: pool.map re-raises in main()
    result,          \* the list pool.map returned
    reachable_devs,  \* what get_all_reachable_lan_devs returned
    printed,         \* "nothing", "help", "missing", "none", "table"
    uncaught,        \* the exception that ended the run, "none" if none
    exit_code,       \* the exit status, -1 while running
    now,             \* the ticks of the clock since pool.map was called
    elapsed          \* elapsed[c]: the ticks chunk c's current ping has run

vars == <<pc, argv, installed, ip_status, proc_stdout, lan_dev, pool_started,
          all_macs, all_ips, taken, cur, outcome, probes, raised, result,
          reachable_devs, printed, uncaught, exit_code, now, elapsed>>

\* The clock, which only the timed runs advance.
clockvars == <<now, elapsed>>

poolvars == <<taken, cur, outcome, probes, raised>>

Init ==
    /\ pc = "main"
    /\ argv \in Argvs
    /\ installed \in SUBSET Programs
    /\ ip_status = "not_run"
    /\ proc_stdout = <<>>
    /\ lan_dev = <<>>
    /\ pool_started = FALSE
    /\ all_macs = <<>>
    /\ all_ips = <<>>
    /\ taken = 0
    /\ cur = <<>>
    /\ outcome = <<>>
    /\ probes = <<>>
    /\ raised = FALSE
    /\ result = <<>>
    /\ reachable_devs = <<>>
    /\ printed = "nothing"
    /\ uncaught = "none"
    /\ exit_code = -1
    /\ now = 0
    /\ elapsed = <<>>

\* ------------------------------------------------------------ main()

\* Mutant of IsHelp: any argument asks for the help.
IsHelpAnyArgument == Len(argv) > 1

\* Lines 103-104: argc > 1 and sys.argv[1] in ("help", "-help", ...).
IsHelp == Len(argv) > 1 /\ argv[2] \in HelpArgs

\* Mutant of prereq_installed: one of the two programs is enough.
prereq_any_installed == \E req \in Programs : req \in installed

\* prereq_installed(): shutil.which finds both "ip" and "ping".
prereq_installed == \A req \in Programs : req \in installed

\* Lines 103-106: show_help() and sys.exit(0).
ShowHelp ==
    /\ pc = "main"
    /\ IsHelp
    /\ printed' = "help"
    /\ exit_code' = 0
    /\ pc' = "exited"
    /\ UNCHANGED <<argv, installed, ip_status, proc_stdout, lan_dev,
                   pool_started, all_macs, all_ips, poolvars, result,
                   reachable_devs, uncaught>>
    /\ UNCHANGED clockvars

\* Lines 108-110: show_missing_dependency() and sys.exit(1).
MissingDependency ==
    /\ pc = "main"
    /\ ~IsHelp
    /\ ~prereq_installed
    /\ printed' = "missing"
    /\ exit_code' = 1
    /\ pc' = "exited"
    /\ UNCHANGED <<argv, installed, ip_status, proc_stdout, lan_dev,
                   pool_started, all_macs, all_ips, poolvars, result,
                   reachable_devs, uncaught>>
    /\ UNCHANGED clockvars

\* main() reaches line 112 and calls get_all_reachable_lan_devs().
CallsDiscovery == pc = "main" /\ ~IsHelp /\ prereq_installed

\* ------------------------------------------- get_all_reachable_lan_devs()

\* Line 73: subprocess.run cannot execute `ip` and raises OSError, which
\* nothing catches: the interpreter prints the traceback and exits 1.
IpNotExecuted ==
    /\ CallsDiscovery
    /\ ip_status' = "noexec"
    /\ uncaught' = "OSError"
    /\ exit_code' = 1
    /\ pc' = "exited"
    /\ UNCHANGED <<argv, installed, proc_stdout, lan_dev, pool_started,
                   all_macs, all_ips, poolvars, result, reachable_devs,
                   printed>>
    /\ UNCHANGED clockvars

\* How `ip` ended when it was executed: with status 0 or with a failure.
Statuses == {"ok", "failed"}

\* What `ip` can have written, by how it ended.
OutputsOf(status) == IF status = "ok" THEN Outputs ELSE FailedOutputs

\* Lines 73-74: `ip` ran; proc.returncode is never read.
IpRuns(status, out) ==
    /\ ip_status' = status
    /\ proc_stdout' = out

\* Lines 76-80: no non-empty line, return {} at once.
EmptyNeighborTable ==
    /\ CallsDiscovery
    /\ \E status \in Statuses : \E out \in OutputsOf(status) :
         /\ IpRuns(status, out)
         /\ ProcResultLines(out) = <<>>
    /\ reachable_devs' = <<>>
    /\ pc' = "returned"
    /\ UNCHANGED <<argv, installed, lan_dev, pool_started, all_macs, all_ips,
                   poolvars, result, printed, uncaught, exit_code>>
    /\ UNCHANGED clockvars

\* Lines 82-93: parse the lines, create the pool, take the two snapshots and
\* hand the IPs to pool.map, which blocks until the MapResult is ready.
StartPool ==
    /\ CallsDiscovery
    /\ \E status \in Statuses : \E out \in OutputsOf(status) :
         LET procresultlines == ProcResultLines(out) IN
           /\ IpRuns(status, out)
           /\ procresultlines # <<>>
           /\ lan_dev' = ParseLines(<<>>, procresultlines)
    /\ pool_started' = TRUE
    /\ all_macs' = DictKeys(lan_dev')
    /\ all_ips' = DictValues(lan_dev')
    /\ taken' = 0
    /\ cur' = [c \in 1..NumChunks(Len(lan_dev')) |-> 0]
    /\ outcome' = [i \in 1..Len(lan_dev') |-> "none"]
    /\ probes' = [i \in 1..Len(lan_dev') |-> <<>>]
    /\ raised' = FALSE
    /\ pc' = "pool_map"
    /\ UNCHANGED <<argv, installed, result, reachable_devs, printed,
                   uncaught, exit_code>>
    /\ UNCHANGED clockvars

\* ------------------------------------------------------------ workers

\* The chunks a worker process is running.
Busy == { c \in 1..Len(cur) : cur[c] # 0 }

\* The probes in flight: started and not finished.
InFlight == { cur[c] : c \in Busy }

\* Mutant of WorkerIdle: a process per task instead of a pool.
WorkerPerTask == TRUE

\* A worker process is idle and can take the next task of the queue.
WorkerIdle == Cardinality(Busy) < Processes

\* ping's exit status: 0 answered, 1 no reply in time, 2 another error.
PingCodes == {0, 1, 2}

\* is_ip_reachable: proc.returncode == 0.
is_ip_reachable(returncode) == returncode = 0

\* An idle worker takes the next chunk and calls is_ip_reachable on its
\* first IP: the ping is started.
TakeChunk ==
    /\ pc = "pool_map"
    /\ taken < Len(cur)
    /\ WorkerIdle
    /\ taken' = taken + 1
    /\ cur' = [cur EXCEPT ![taken + 1] = ChunkFirst(Len(all_ips), taken + 1)]
    /\ probes' = [probes EXCEPT ![ChunkFirst(Len(all_ips), taken + 1)] =
                    Append(@, all_ips[ChunkFirst(Len(all_ips), taken + 1)])]
    /\ UNCHANGED <<pc, argv, installed, ip_status, proc_stdout, lan_dev,
                   pool_started, all_macs, all_ips, outcome, raised, result,
                   reachable_devs, printed, uncaught, exit_code>>

\* The ping of chunk c's current IP ends with returncode: the outcome is
\* stored at the IP's index, and the worker goes on with the chunk's next
\* IP or, after the last one, hands the chunk's results in.
EndProbe(c, returncode) ==
    /\ pc = "pool_map"
    /\ c \in Busy
    /\ outcome' = [outcome EXCEPT ![cur[c]] =
                     IF is_ip_reachable(returncode) THEN "true" ELSE "false"]
    /\ IF cur[c] < ChunkLast(Len(all_ips), c)
       THEN /\ cur' = [cur EXCEPT ![c] = @ + 1]
            /\ probes' = [probes EXCEPT ![cur[c] + 1] =
                            Append(@, all_ips[cur[c] + 1])]
       ELSE /\ cur' = [cur EXCEPT ![c] = 0]
            /\ UNCHANGED probes
    /\ UNCHANGED <<pc, argv, installed, ip_status, proc_stdout, lan_dev,
                   pool_started, all_macs, all_ips, taken, raised, result,
                   reachable_devs, printed, uncaught, exit_code>>

\* The two steps of a worker when the clock is not observed.
WorkerTake == TakeChunk /\ UNCHANGED clockvars

ProbeReturn(c, returncode) == EndProbe(c, returncode) /\ UNCHANGED clockvars

\* subprocess.run cannot execute ping (line 67) and raises OSError inside
\* the worker: the chunk fails and the MapResult is set to the exception.
ProbeRaise(c) ==
    /\ pc = "pool_map"
    /\ c \in Busy
    /\ outcome' = [outcome EXCEPT ![cur[c]] = "raised"]
    /\ cur' = [cur EXCEPT ![c] = 0]
    /\ raised' = TRUE
    /\ UNCHANGED <<pc, argv, installed, ip_status, proc_stdout, lan_dev,
                   pool_started, all_macs, all_ips, taken, probes, result,
                   reachable_devs, printed, uncaught, exit_code>>
    /\ UNCHANGED clockvars

\* ------------------------------------------------------------ the barrier

\* Mutant of MapReady: ready as soon as no worker is busy.
MapReadyWhenIdle == ~raised /\ Busy = {}

\* The MapResult is ready with a value: every chunk handed its results in.
MapReady ==
    /\ ~raised
    /\ \A i \in 1..Len(outcome) : outcome[i] \in {"true", "false"}

\* The list pool.map returns: the outcomes in the order of the iterable.
MapValue(out) == [i \in 1..Len(out) |-> out[i] = "true"]

\* Lines 93-97: pool.map returns, the unreachable MACs are popped and the
\* dict is returned to main().
PassBarrier ==
    /\ pc = "pool_map"
    /\ MapReady
    /\ result' = MapValue(outcome)
    /\ LET popped == PopUnreachable(lan_dev, all_macs, result') IN
         /\ lan_dev' = popped.dev
         /\ IF popped.keyerror
            THEN /\ uncaught' = "KeyError"
                 /\ exit_code' = 1
                 /\ pc' = "exited"
                 /\ UNCHANGED reachable_devs
            ELSE /\ reachable_devs' = popped.dev
                 /\ pc' = "returned"
                 /\ UNCHANGED <<uncaught, exit_code>>
    /\ UNCHANGED <<argv, installed, ip_status, proc_stdout, pool_started,
                   all_macs, all_ips, poolvars, printed>>

MapReturn == PassBarrier /\ UNCHANGED clockvars

\* Line 93: pool.map re-raises the task's exception in main(); the with
\* block terminates the pool and the run ends with a traceback, status 1.
MapRaise ==
    /\ pc = "pool_map"
    /\ raised
    /\ uncaught' = "OSError"
    /\ exit_code' = 1
    /\ pc' = "exited"
    /\ UNCHANGED <<argv, installed, ip_status, proc_stdout, lan_dev,
                   pool_started, all_macs, all_ips, poolvars, result,
                   reachable_devs, printed>>
    /\ UNCHANGED clockvars

\* ------------------------------------------------------------ the output

\* Mutant of PrintNoDevices: the empty result ends with sys.exit(1).
PrintNoDevicesExit1 ==
    /\ pc = "returned"
    /\ reachable_devs = <<>>
    /\ printed' = "none"
    /\ exit_code' = 1
    /\ pc' = "exited"
    /\ UNCHANGED <<argv, installed, ip_status, proc_stdout, lan_dev,
                   pool_started, all_macs, all_ips, poolvars, result,
                   reachable_devs, uncaught>>
    /\ UNCHANGED clockvars

\* Lines 114-116: the empty result.
PrintNoDevices ==
    /\ pc = "returned"
    /\ reachable_devs = <<>>
    /\ printed' = "none"
    /\ exit_code' = 0
    /\ pc' = "exited"
    /\ UNCHANGED <<argv, installed, ip_status, proc_stdout, lan_dev,
                   pool_started, all_macs, all_ips, poolvars, result,
                   reachable_devs, uncaught>>
    /\ UNCHANGED clockvars

\* Lines 118-124: the table, one row per item of reachable_devs; main()
\* returns and the interpreter exits 0.
PrintTable ==
    /\ pc = "returned"
    /\ reachable_devs # <<>>
    /\ printed' = "table"
    /\ exit_code' = 0
    /\ pc' = "exited"
    /\ UNCHANGED <<argv, installed, ip_status, proc_stdout, lan_dev,
                   pool_started, all_macs, all_ips, poolvars, result,
                   reachable_devs, uncaught>>
    /\ UNCHANGED clockvars

Next ==
    \/ ShowHelp
    \/ MissingDependency
    \/ IpNotExecuted
    \/ EmptyNeighborTable
    \/ StartPool
    \/ WorkerTake
    \/ \E c \in 1..Len(cur), returncode \in PingCodes : ProbeReturn(c, returncode)
    \/ \E c \in 1..Len(cur) : ProbeRaise(c)
    \/ MapReturn
    \/ MapRaise
    \/ PrintNoDevices
    \/ PrintTable

Spec == Init /\ [][Next]_vars

\* ------------------------------------------------------------ timed runs

\* The runs of the pool against a clock: pool.map is called at tick 0 on n
\* candidates, an idle worker takes a waiting task at once, and every ping
\* ends at least MinProbeTicks and at most TicksPerUnit ticks after its start.

Hex16 == <<"0", "1", "2", "3", "4", "5", "6", "7",
           "8", "9", "a", "b", "c", "d", "e", "f">>

\* The MAC of device i: its first group is i in hexadecimal.
WideMac(i) ==
    <<Hex16[(i \div 16) + 1], Hex16[(i % 16) + 1]>>
        \o SubSeq(MkMac("0", ":"), 3, 17)

\* The output of `ip` for n resolved devices with distinct MACs.
WideOutput(n) ==
    JoinLines([i \in 1..n |-> Resolved(Ip(Digits[(i % 9) + 1]), WideMac(i))])

\* The state StartPool leaves when `ip` wrote n resolved devices.
TimeInit ==
    \E n \in 1..MaxCandidates :
        /\ pc = "pool_map"
        /\ argv = <<"landevlist">>
        /\ installed = Programs
        /\ ip_status = "ok"
        /\ proc_stdout = WideOutput(n)
        /\ lan_dev = ParseLines(<<>>, ProcResultLines(WideOutput(n)))
        /\ pool_started = TRUE
        /\ all_macs = DictKeys(lan_dev)
        /\ all_ips = DictValues(lan_dev)
        /\ taken = 0
        /\ cur = [c \in 1..NumChunks(Len(lan_dev)) |-> 0]
        /\ outcome = [i \in 1..Len(lan_dev) |-> "none"]
        /\ probes = [i \in 1..Len(lan_dev) |-> <<>>]
        /\ raised = FALSE
        /\ result = <<>>
        /\ reachable_devs = <<>>
        /\ printed = "nothing"
        /\ uncaught = "none"
        /\ exit_code = -1
        /\ now = 0
        /\ elapsed = [c \in 1..NumChunks(Len(lan_dev)) |-> 0]

\* An idle worker takes the next chunk: its first ping starts now.
TimedTake ==
    /\ TakeChunk
    /\ elapsed' = [elapsed EXCEPT ![taken + 1] = 0]
    /\ UNCHANGED now

\* ping's exit status when no reply came within the timeout.
NoReply == 1

\* A worker is idle while a task waits in the queue: it takes it at once.
TakeDue == taken < Len(cur) /\ WorkerIdle

\* The ping of chunk c ends, not before the shortest ping would and at the
\* latest when its timeout is over; the chunk's next ping, if any, starts now.
TimedReturn(c) ==
    /\ c \in Busy
    /\ ~TakeDue
    /\ elapsed[c] >= MinProbeTicks
    /\ EndProbe(c, NoReply)
    /\ elapsed' = [elapsed EXCEPT ![c] = 0]
    /\ UNCHANGED now

\* The clock ticks: no worker is idle while a task waits, and no ping has
\* run for the whole timeout.
Tick ==
    /\ pc = "pool_map"
    /\ Busy # {}
    /\ ~TakeDue
    /\ \A c \in Busy : elapsed[c] < TicksPerUnit
    /\ now' = now + 1
    /\ elapsed' = [c \in 1..Len(elapsed) |->
                     IF c \in Busy THEN elapsed[c] + 1 ELSE elapsed[c]]
    /\ UNCHANGED <<pc, argv, installed, ip_status, proc_stdout, lan_dev,
                   pool_started, all_macs, all_ips, poolvars, result,
                   reachable_devs, printed, uncaught, exit_code>>

\* pool.map returns: the clock shows when the coordinator finished.
TimedMapReturn == PassBarrier /\ UNCHANGED clockvars

TimeNext ==
    \/ TimedTake
    \/ \E c \in 1..Len(cur) : TimedReturn(c)
    \/ Tick
    \/ TimedMapReturn

SpecTime == TimeInit /\ [][TimeNext]_vars

\* ------------------------------------------------------------ properties

\* The candidate set: what the parser makes of the output of `ip`.
Candidates == ParseLines(<<>>, ProcResultLines(proc_stdout))

Items(d) == { d[i] : i \in 1..Len(d) }

\* get_all_reachable_lan_devs() has returned its mapping to main().
Returned == pc = "returned" \/ printed \in {"none", "table"}

\* The indices whose probe outcome was true.
TrueOutcomes == { i \in 1..Len(outcome) : outcome[i] = "true" }

\* C1: the mapping get_all_reachable_lan_devs returns holds exactly the
\* (MAC, IP) entries of the candidate set whose probe outcome was true: none
\* with a false outcome, and every one with a true outcome.
C1_ReturnsExactlyTheReachable ==
    Returned =>
        Items(reachable_devs) = { Candidates[i] : i \in TrueOutcomes }

\* C1 witness: a run returned with one candidate kept and another dropped.
C1_Witness ==
    /\ Returned
    /\ \E i, j \in 1..Len(outcome) : outcome[i] = "true" /\ outcome[j] = "false"

\* C2: with more candidates than workers, under every interleaving, every
\* MAC is kept or dropped by the outcome of the probe of its own IP, the
\* probe of its index was given its own IP, and a kept MAC has its own IP.
C2_PairingBeyondPoolSize ==
    (Returned /\ Len(all_macs) > MULTIPROC_PCOUNT) =>
        \A i \in 1..Len(Candidates) :
            /\ probes[i] = <<Candidates[i][2]>>
            /\ outcome[i] = "true" =>
                 /\ DictHas(reachable_devs, Candidates[i][1])
                 /\ DictGet(reachable_devs, Candidates[i][1]) = Candidates[i][2]
            /\ outcome[i] = "false" => ~DictHas(reachable_devs, Candidates[i][1])

\* C2 witness: more candidates than workers, with distinct IPs, mixed
\* outcomes, and the first candidate dropped while the last is kept.
C2_Witness ==
    /\ Returned
    /\ Len(all_macs) > MULTIPROC_PCOUNT
    /\ Cardinality({ all_ips[i] : i \in 1..Len(all_ips) }) = Len(all_ips)
    /\ outcome[1] = "false"
    /\ outcome[Len(outcome)] = "true"

\* The run is over: the process has exited.
Exited == pc = "exited"

C4_InFlightBounded == Cardinality(InFlight) <= MULTIPROC_PCOUNT

\* C4 witness: the pool is saturated while a task still waits in the queue.
C4_Witness ==
    /\ Cardinality(InFlight) = MULTIPROC_PCOUNT
    /\ taken < Len(cur)

\* A dispatched probe has not completed: it is pending or in flight.
ProbePending == \E i \in 1..Len(outcome) : outcome[i] = "none"

\* C5: while a dispatched probe is pending or in flight, the mapping still
\* holds every candidate, in the order of the snapshots all_macs and all_ips
\* taken of it at dispatch, pool.map has returned no list, nothing was
\* returned to main() and nothing was printed.
C5_Barrier ==
    (pool_started /\ ProbePending) =>
        /\ DictKeys(lan_dev) = all_macs
        /\ DictValues(lan_dev) = all_ips
        /\ result = <<>>
        /\ reachable_devs = <<>>
        /\ ~Returned
        /\ printed = "nothing"

\* C5 witness: a probe has ended with a false outcome while another one is
\* still in flight and a third is still pending.
C5_Witness ==
    /\ pc = "pool_map"
    /\ \E i \in 1..Len(outcome) : outcome[i] = "false"
    /\ InFlight # {}
    /\ taken < Len(cur)

\* C6: with an empty candidate set the pool is never started and no probe
\* is invoked, also when `ip` wrote non-empty lines without a MAC.
C6_EmptyCandidatesStartNothing ==
    (ip_status \in Statuses /\ Candidates = <<>>) =>
        /\ ~pool_started
        /\ probes = <<>>

\* C7: a probe outcome is never an error: no failure of a probe raises in
\* the worker or ends the run with an exception.
C7_ProbeNeverRaises ==
    /\ \A i \in 1..Len(outcome) : outcome[i] # "raised"
    /\ ~raised
    /\ (ip_status \in Statuses => uncaught = "none")

\* `ip -4 neigh show` ended with a failure status or was not executed.
QueryFailed == ip_status \in {"failed", "noexec"}

\* C8: when the query of the neighbor table fails, no probe is started,
\* neither the table nor the no-devices message is printed, and the run
\* ends with an exit status that is not 0.
C8_QueryFailureIsFatal ==
    QueryFailed =>
        /\ \A i \in 1..Len(probes) : probes[i] = <<>>
        /\ printed \notin {"none", "table"}
        /\ exit_code # 0

\* The lowercase of a hexadecimal letter.
Lower(ch) ==
    CASE ch = "A" -> "a" [] ch = "B" -> "b" [] ch = "C" -> "c"
      [] ch = "D" -> "d" [] ch = "E" -> "e" [] ch = "F" -> "f"
      [] OTHER -> ch

\* A MAC in lowercase with ":" between its groups.
Normalized(mac) ==
    [k \in 1..Len(mac) |-> IF mac[k] \in Separators THEN ":" ELSE Lower(mac[k])]

\* The parser has just run: lan_dev is the candidate set.
Parsed == pc = "pool_map" /\ taken = 0

\* C9: the keys of the candidate set are normalized, so that one hardware
\* address written in two ways makes one entry.
C9_KeysNormalized ==
    Parsed =>
        /\ \A i \in 1..Len(lan_dev) : lan_dev[i][1] = Normalized(lan_dev[i][1])
        /\ \A i, j \in 1..Len(lan_dev) :
             Normalized(lan_dev[i][1]) = Normalized(lan_dev[j][1]) => i = j

\* The lines of the neighbor table whose match is mac, by position.
LinesOf(lines, mac) ==
    { n \in 1..Len(lines) : MacSearch(lines[n]) # 0 /\ MacGroup0(lines[n]) = mac }

Last(S) == CHOOSE n \in S : \A m \in S : m <= n

\* C10: a MAC matched on several lines has exactly one entry in the
\* candidate set, with the first token of the last of those lines.
C10_LastLineWins ==
    Parsed =>
        LET lines == ProcResultLines(proc_stdout) IN
        \A n \in 1..Len(lines) :
            MacSearch(lines[n]) # 0 =>
                LET mac == MacGroup0(lines[n]) IN
                /\ Cardinality({ i \in 1..Len(lan_dev) : lan_dev[i][1] = mac }) = 1
                /\ DictGet(lan_dev, mac) = FirstToken(lines[Last(LinesOf(lines, mac))])

\* C10 witness: the same MAC on three lines, the last with another IP than
\* the first.
C10_Witness ==
    /\ Parsed
    /\ LET lines == ProcResultLines(proc_stdout) IN
         /\ Len(lines) >= 3
         /\ \E mac \in { lan_dev[i][1] : i \in 1..Len(lan_dev) } :
              /\ Cardinality(LinesOf(lines, mac)) >= 3
              /\ FirstToken(lines[1]) # FirstToken(lines[Last(LinesOf(lines, mac))])
              /\ 1 \in LinesOf(lines, mac)

\* The lines of the neighbor table with a match of the MAC pattern.
MatchedLines(lines) == { n \in 1..Len(lines) : MacSearch(lines[n]) # 0 }

\* C11: a line with no match of the MAC pattern adds no entry and changes
\* none: the keys of the candidate set are exactly the MACs matched on the
\* other lines, one entry each, every value is the first token of a line
\* with that MAC, and no line raises an exception.
C11_UnmatchedLinesSkipped ==
    Parsed =>
        LET lines == ProcResultLines(proc_stdout) IN
        /\ { lan_dev[i][1] : i \in 1..Len(lan_dev) }
             = { MacGroup0(lines[n]) : n \in MatchedLines(lines) }
        /\ Len(lan_dev) = Cardinality({ MacGroup0(lines[n]) : n \in MatchedLines(lines) })
        /\ \A i \in 1..Len(lan_dev) :
             \E n \in MatchedLines(lines) :
                /\ MacGroup0(lines[n]) = lan_dev[i][1]
                /\ FirstToken(lines[n]) = lan_dev[i][2]
        /\ uncaught = "none"

\* C11 witness: a line with a MAC, then a line of another IP without one,
\* and the entry still has the first line's IP.
C11_Witness ==
    /\ Parsed
    /\ LET lines == ProcResultLines(proc_stdout) IN
         /\ Len(lines) >= 2
         /\ MacSearch(lines[1]) # 0
         /\ MacSearch(lines[2]) = 0
         /\ FirstToken(lines[2]) # FirstToken(lines[1])
         /\ lan_dev = << <<MacGroup0(lines[1]), FirstToken(lines[1])>> >>

\* The first argument is one of the four spellings of help.
HelpRequested ==
    Len(argv) >= 2 /\ argv[2] \in {"help", "-help", "--help", "/help"}

\* The preflight is reached and does not find ip or does not find ping.
PreflightFails ==
    ~HelpRequested /\ ("ip" \notin installed \/ "ping" \notin installed)

\* The core has not run: no query of the neighbor table, no pool, no probe.
CoreNeverRan == ip_status = "not_run" /\ ~pool_started /\ probes = <<>>

\* C12: when ip or ping is missing at the preflight, the core never runs,
\* and the run ends with the dependency guidance printed and status 1.
C12_MissingDependencyStopsRun ==
    PreflightFails =>
        /\ CoreNeverRan
        /\ uncaught = "none"
        /\ Exited => (printed = "missing" /\ exit_code = 1)

\* C12 witness: ping is missing, the guidance was printed, the status is 1.
C12_Witness ==
    /\ Exited
    /\ installed = {"ip"}
    /\ printed = "missing"
    /\ exit_code = 1

\* With a help argument no discovery runs, and the run ends with the usage
\* text printed and status 0, whatever is installed.
HelpOnly ==
    HelpRequested =>
        /\ CoreNeverRan
        /\ Exited => (printed = "help" /\ exit_code = 0)

\* C13 as stated: a help argument prints the usage, exits 0 and runs no
\* discovery; with any other argument or none, the run has queried the
\* neighbor table when it ends.
C13_HelpElseDiscovery ==
    /\ HelpOnly
    /\ (~HelpRequested /\ Exited) => ip_status # "not_run"

\* C13 amended: with any other argument or none, the run goes to the
\* preflight: it has queried the neighbor table when it ends if ip and ping
\* are both found, and has printed the dependency guidance without a query
\* if not.
C13_HelpElsePreflight ==
    /\ HelpOnly
    /\ (~HelpRequested /\ Exited) =>
          IF installed = {"ip", "ping"}
          THEN ip_status # "not_run"
          ELSE ip_status = "not_run" /\ printed = "missing"

\* C13 witness: another argument than help, and discovery ran to the table.
C13_Witness ==
    /\ Exited
    /\ Len(argv) = 2
    /\ ~HelpRequested
    /\ ip_status = "ok"
    /\ printed = "table"

\* The active device set: the candidates whose probe outcome was true.
ActiveSet == { Candidates[i] : i \in TrueOutcomes }

\* C14: a run that went through discovery and ended without an exception
\* exits 0; it printed the no-devices message and no table if the active
\* set is empty, and the table of the active set if not.
C14_MessageOrTable ==
    (Exited /\ ip_status \in Statuses /\ uncaught = "none") =>
        /\ exit_code = 0
        /\ IF ActiveSet = {}
           THEN printed = "none"
           ELSE printed = "table" /\ Items(reachable_devs) = ActiveSet

\* C14 witness: several candidates, every outcome false, the message
\* printed.
C14_Witness ==
    /\ Exited
    /\ Len(outcome) >= 2
    /\ \A i \in 1..Len(outcome) : outcome[i] = "false"
    /\ printed = "none"
    /\ exit_code = 0

\* C16: a run that dispatched its probes passes the barrier and returns a
\* result: when it has ended, get_all_reachable_lan_devs had returned, and
\* from the barrier on no probe is in flight and none is started.
C16_RunReturnsResult ==
    /\ (Exited /\ pool_started) => (Returned /\ uncaught = "none")
    /\ (Returned /\ pool_started) => (InFlight = {} /\ taken = Len(cur))

\* C17: the snapshots all_macs and all_ips have the length of the outcomes
\* and of the list pool.map returns, they agree index by index with the
\* items of the mapping until the filtering, no MAC is twice in all_macs,
\* and no pop raises KeyError.
C17_FilteringNeverFails ==
    pool_started =>
        /\ Len(all_macs) = Len(all_ips)
        /\ Len(outcome) = Len(all_macs)
        /\ \A i, j \in 1..Len(all_macs) : all_macs[i] = all_macs[j] => i = j
        /\ pc = "pool_map" =>
             /\ Len(lan_dev) = Len(all_macs)
             /\ \A i \in 1..Len(all_macs) : lan_dev[i] = <<all_macs[i], all_ips[i]>>
        /\ Returned =>
             /\ Len(result) = Len(all_macs)
             /\ \A i \in 1..Len(all_macs) :
                  DictHas(lan_dev, all_macs[i]) <=> result[i]
        /\ uncaught # "KeyError"

\* C17 witness: three candidates, two of them popped, one left.
C17_Witness ==
    /\ Returned
    /\ Len(all_macs) = 3
    /\ result = <<FALSE, TRUE, FALSE>>
    /\ Len(lan_dev) = 1

\* The number of candidates of the run.
NumCandidates == Len(all_ips)

\* ceil(a / b) for b > 0.
CeilDiv(a, b) == (a + b - 1) \div b

\* C15 as stated: the coordinator finishes within ceil(N / 5) probe
\* timeouts, for every number N of candidates.
C15_FinishesWithinCeilN5 ==
    pc = "returned" => now <= TicksPerUnit * CeilDiv(NumCandidates, 5)

\* The bound in probe timeouts: ceil(N / 5) up to 21 candidates; beyond,
\* with chunks of k = ceil(N / 20) probes, k * ceil(ceil(N / k) / 5).
TimeBound(n) ==
    IF n <= 21 THEN CeilDiv(n, 5)
    ELSE CeilDiv(n, 20) * CeilDiv(CeilDiv(n, CeilDiv(n, 20)), 5)

\* C15 amended: the coordinator finishes within TimeBound(N) probe
\* timeouts, and no ping is in flight for longer than one timeout.
C15_FinishesWithinChunkBound ==
    /\ pc = "returned" => now <= TicksPerUnit * TimeBound(NumCandidates)
    /\ \A c \in Busy : elapsed[c] <= TicksPerUnit

\* C15 witness: 22 candidates, finished after 6 probe timeouts, one more
\* than ceil(22 / 5).
C15_Witness ==
    /\ pc = "returned"
    /\ NumCandidates = 22
    /\ now = TicksPerUnit * 6

====
